---------------------------- MODULE Spec2Model ----------------------------
(***************************************************************************)
(* Model of the training driver experiments/train.py (singing voice        *)
(* detection, ISMIR 2015) and of the data pipeline it drives: the spectrum *)
(* cache (simplecache.cached), the random excerpt sampler                  *)
(* (augment.grab_random_excerpts) and the background feeder                *)
(* (augment.generate_in_background).                                       *)
(*                                                                         *)
(* The specifications of the module:                                      *)
(*   Spec         main() of train.py, from the command line to the end of  *)
(*                training                                                 *)
(*   SpecCache    repeated calls of cached() against one cache directory   *)
(*   SpecSampler  create_datafeed() and the excerpts the sampler draws     *)
(*   SpecFeeder   the threaded feeder: workers, bounded queues, consumer   *)
(*   FairFeeder   SpecFeeder with the scheduler's fairness                 *)
(* Each specification leaves the variables of the others untouched.        *)
(***************************************************************************)
EXTENDS Integers, Sequences, FiniteSets, TLC

\* ------------------------------------------------------------------------
\* Bounds of the model
\* ------------------------------------------------------------------------
MaxFiles == 2          \* longest 'train' / 'valid' file list
MaxWorkers == 2        \* largest bg_threads / bg_processes
MaxSplineOrder == 2    \* largest spline_order
MaxEpochs == 1         \* largest cfg['epochs']
MaxEpochSize == 2      \* largest cfg['epochsize']
MaxEvents == 4         \* calls of cached() and deletions in one history
MaxItemLen == 6        \* frames of the longest corpus item
MaxBlocklen == 3       \* largest cfg['blocklen']
MaxStretchDen == 3     \* max_stretch ranges over the fractions n/d, d up to this
MaxBatchsize == 2      \* largest cfg['batchsize']

\* ------------------------------------------------------------------------
\* Program constants
\* ------------------------------------------------------------------------
NumCachedNoAugment == 15   \* train.py:163  num_cached=15
CachedPerThread == 5       \* train.py:214  num_cached=bg_threads * 5
CachedPerProcess == 25     \* train.py:219  num_cached=bg_processes * 25

None == "None"
LoadingModes == {"memory", "memmap", "on-demand"}   \* train.py:63 choices

VARIABLES
    \* ---- main() of train.py
    pc,            \* position of main()
    options,       \* parsed command line
    cfg,           \* configuration variables
    train_list,    \* content of datasets/<dataset>/filelists/train
    valid_list,    \* content of datasets/<dataset>/filelists/valid
    filelist, filelist_val,
    spects, labels, spects_val, labels_val,
    disk,          \* cache directory: file name -> stored array
    extract_calls, \* number of calls of audio.extract_spect
    prefiltered,   \* flag handed to apply_random_stretch_shift
    feed,          \* the batch generator main() trains from
    pulled,        \* number of next(batches) done by the training loop
    batch_log,     \* what has been observed on the pulled batches
    \* ---- the cache directory under repeated calls of cached()
    c_disk,        \* cache directory: file name -> stored array
    c_events,      \* the calls of cached() and the deletions, in order
    \* ---- create_datafeed() and the sampler
    s_in,          \* augment, blocklen, max_stretch, batchsize, corpus
    s_pc,          \* "new", "ready" or "config_error"
    s_frames,      \* excerpt length requested from the sampler
    s_excerpt,     \* the excerpt drawn last
    s_count,       \* excerpts drawn into the current batch
    \* ---- the threaded feeder
    f_q,           \* worker -> number of batches in its queue
    f_worker,      \* worker -> "running", "failed" or "stopped"
    f_rr,          \* the queue the consumer pulls from next
    f_stop         \* workers have been signalled to terminate

mainVars == <<pc, options, cfg, train_list, valid_list, filelist, filelist_val,
              spects, labels, spects_val, labels_val, disk, extract_calls,
              prefiltered, feed, pulled, batch_log>>

cacheVars == <<c_disk, c_events>>
samplerVars == <<s_in, s_pc, s_frames, s_excerpt, s_count>>
feederVars == <<f_q, f_worker, f_rr, f_stop>>

vars == <<mainVars, cacheVars, samplerVars, feederVars>>

\* ------------------------------------------------------------------------
\* Helpers
\* ------------------------------------------------------------------------
Min(a, b) == IF a < b THEN a ELSE b
Max(a, b) == IF a > b THEN a ELSE b

\* Python's normalisation of a slice bound k for a sequence of length n
PyBound(k, n) == IF k < 0 THEN Max(k + n, 0) ELSE Min(k, n)

\* s[k:]
SliceFrom(s, k) == SubSeq(s, PyBound(k, Len(s)) + 1, Len(s))

\* s[:k]
SliceTo(s, k) == SubSeq(s, 1, PyBound(k, Len(s)))

\* Python truthiness of an option value (None and '' are false)
Truthy(v) == v # None /\ v # ""

\* ------------------------------------------------------------------------
\* External collaborators
\* ------------------------------------------------------------------------
\* audio.extract_spect(file, ...): a pure function of the file
ExtractSpect(fn) == [file |-> fn, filtered |-> 0]

\* create_aligned_targets for the label file of fn, one label per frame
AlignedTargets(fn, spect) == [file |-> fn, frames_of |-> spect.file]

\* np.save / np.load of an array
NpSave(arr) == [npy |-> arr]
NpLoad(entry) == entry.npy

\* simplecache.cached(cache_fn, func, *args, loading_mode=mode): the array, the
\* cache directory afterwards, and whether func was invoked
Cached(cache_fn, fn, mode, d) ==
    IF Truthy(cache_fn) /\ cache_fn \in DOMAIN d
    THEN [result |-> NpLoad(d[cache_fn]), disk |-> d, invoked |-> FALSE]
    ELSE LET result == ExtractSpect(fn)
         IN  [result |-> result,
              disk |-> IF Truthy(cache_fn)
                       THEN [k \in DOMAIN d \cup {cache_fn} |->
                               IF k = cache_fn THEN NpSave(result) ELSE d[k]]
                       ELSE d,
              invoked |-> TRUE]

\* grab_random_excerpts needs at least one item to draw from
SamplerConstructible(items) == Len(items) > 0

\* ------------------------------------------------------------------------
\* main(): command line
\* ------------------------------------------------------------------------
\* the check of train.py:86 covering only --load-spectra=memmap
MissingCacheDirMemmapOnly(load_spectra, cache_spectra) ==
    load_spectra = "memmap" /\ ~Truthy(cache_spectra)

\* train.py:86  the option check before parser.error
MissingCacheDir(load_spectra, cache_spectra) ==
    load_spectra # "memory" /\ ~Truthy(cache_spectra)

\* train.py:128 with the cache file name never set
CacheFnUnset(cache_spectra, fn) == None

\* train.py:128  cache_fn = cache_spectra and join(cache_spectra, fn + '.npy')
CacheFn(cache_spectra, fn) ==
    IF Truthy(cache_spectra) THEN <<cache_spectra, fn, "npy">> ELSE cache_spectra

\* the test of train.py:169 without the loading mode
PrefilterUpstreamAnyMode(spline_order, load_spectra) ==
    spline_order > 1

\* train.py:169  whether the spectrograms are spline-filtered once, upstream
PrefilterUpstream(spline_order, load_spectra) ==
    spline_order > 1 /\ load_spectra = "memory"

\* train.py:157-220  the generator main() trains from
SyncFeed == [mode |-> "sync", workers |-> 0, queues |-> 0, num_cached |-> 0]
BackgroundFeed(m, n, c) ==
    [mode |-> m, workers |-> n, queues |-> n, num_cached |-> c]

\* train.py:157-220 with the augmented feed always wrapped in a background
\* thread, as the feed without augmentation is
MakeFeedAlwaysBackground(augment, bg_threads, bg_processes) ==
    IF ~augment \/ (bg_threads = 0 /\ bg_processes = 0)
    THEN BackgroundFeed("threads", 1, NumCachedNoAugment)
    ELSE IF bg_threads # 0
         THEN BackgroundFeed("threads", bg_threads,
                             bg_threads * CachedPerThread)
         ELSE BackgroundFeed("processes", bg_processes,
                             bg_processes * CachedPerProcess)

\* train.py:157-220 with the threaded feed given the queue size of the
\* multi-process feed
MakeFeedProcessDepth(augment, bg_threads, bg_processes) ==
    IF ~augment
    THEN BackgroundFeed("threads", 1, NumCachedNoAugment)
    ELSE IF bg_threads = 0 /\ bg_processes = 0
         THEN SyncFeed
         ELSE IF bg_threads # 0
              THEN BackgroundFeed("threads", bg_threads,
                                  bg_threads * CachedPerProcess)
              ELSE BackgroundFeed("processes", bg_processes,
                                  bg_processes * CachedPerProcess)

MakeFeed(augment, bg_threads, bg_processes) ==
    IF ~augment
    THEN BackgroundFeed("threads", 1, NumCachedNoAugment)
    ELSE IF bg_threads = 0 /\ bg_processes = 0
         THEN SyncFeed
         ELSE IF bg_threads # 0
              THEN BackgroundFeed("threads", bg_threads,
                                  bg_threads * CachedPerThread)
              ELSE BackgroundFeed("processes", bg_processes,
                                  bg_processes * CachedPerProcess)

TrainFiles(n) == [i \in 1..n |-> <<"train", i>>]
ValidFiles(n) == [i \in 1..n |-> <<"valid", i>>]

NoFeed == [mode |-> "none", workers |-> 0, queues |-> 0, num_cached |-> 0]

\* no excerpt drawn yet
NoExcerpt == [item |-> None, start |-> 0, frames |-> 0]

MainIdle ==
    /\ pc = "idle"
    /\ options = <<>> /\ cfg = <<>>
    /\ train_list = <<>> /\ valid_list = <<>>
    /\ filelist = <<>> /\ filelist_val = <<>>
    /\ spects = <<>> /\ labels = <<>>
    /\ spects_val = <<>> /\ labels_val = <<>>
    /\ disk = <<>> /\ extract_calls = 0
    /\ prefiltered = FALSE /\ feed = NoFeed
    /\ pulled = 0 /\ batch_log = {}

CacheIdle == c_disk = <<>> /\ c_events = <<>>
SamplerIdle ==
    /\ s_in = <<>> /\ s_pc = "new" /\ s_frames = 0
    /\ s_excerpt = NoExcerpt /\ s_count = 0
FeederIdle == f_q = <<>> /\ f_worker = <<>> /\ f_rr = 0 /\ f_stop = FALSE

Init ==
    /\ CacheIdle /\ SamplerIdle /\ FeederIdle
    /\ pc = "parse"
    /\ options \in [augment : BOOLEAN, validate : BOOLEAN,
                    cache_spectra : {None, "", "cache"},
                    load_spectra : LoadingModes]
    /\ cfg \in [spline_order : 0..MaxSplineOrder,
                bg_threads : 0..MaxWorkers, bg_processes : 0..MaxWorkers,
                epochs : 1..MaxEpochs, epochsize : 1..MaxEpochSize]
    /\ \E n \in 0..MaxFiles : train_list = TrainFiles(n)
    /\ \E n \in 0..MaxFiles : valid_list = ValidFiles(n)
    /\ filelist = <<>> /\ filelist_val = <<>>
    /\ spects = <<>> /\ labels = <<>>
    /\ spects_val = <<>> /\ labels_val = <<>>
    /\ disk = <<>>
    /\ extract_calls = 0
    /\ prefiltered = FALSE
    /\ feed = NoFeed
    /\ pulled = 0
    /\ batch_log = {}

\* train.py:83-88
ParseArgs ==
    /\ pc = "parse"
    /\ pc' = IF MissingCacheDir(options.load_spectra, options.cache_spectra)
             THEN "usage_error" ELSE "filelists"
    /\ UNCHANGED <<options, cfg, train_list, valid_list, filelist, filelist_val,
                   spects, labels, spects_val, labels_val, disk, extract_calls,
                   prefiltered, feed, pulled, batch_log>>
    /\ UNCHANGED <<cacheVars, samplerVars, feederVars>>

\* train.py:113-121
LoadFilelists ==
    /\ pc = "filelists"
    /\ IF options.validate
       THEN /\ filelist_val' = valid_list
            /\ filelist' = train_list \o valid_list
       ELSE /\ filelist_val' = <<>>
            /\ filelist' = train_list
    /\ pc' = "spectra"
    /\ UNCHANGED <<options, cfg, train_list, valid_list,
                   spects, labels, spects_val, labels_val, disk, extract_calls,
                   prefiltered, feed, pulled, batch_log>>
    /\ UNCHANGED <<cacheVars, samplerVars, feederVars>>

\* train.py:126-134  one iteration of the loop over filelist
ComputeSpect ==
    /\ pc = "spectra"
    /\ Len(spects) < Len(filelist)
    /\ LET fn == filelist[Len(spects) + 1]
           r == Cached(CacheFn(options.cache_spectra, fn), fn,
                       options.load_spectra, disk)
       IN  /\ spects' = Append(spects, r.result)
           /\ disk' = r.disk
           /\ extract_calls' = extract_calls + (IF r.invoked THEN 1 ELSE 0)
    /\ UNCHANGED <<pc, options, cfg, train_list, valid_list, filelist,
                   filelist_val, labels, spects_val, labels_val,
                   prefiltered, feed, pulled, batch_log>>
    /\ UNCHANGED <<cacheVars, samplerVars, feederVars>>

\* train.py:136-146
LoadLabels ==
    /\ pc = "spectra"
    /\ Len(spects) = Len(filelist)
    /\ labels' = [i \in 1..Len(filelist) |->
                    AlignedTargets(filelist[i], spects[i])]
    /\ pc' = "split"
    /\ UNCHANGED <<options, cfg, train_list, valid_list, filelist,
                   filelist_val, spects, spects_val, labels_val, disk,
                   extract_calls, prefiltered, feed, pulled, batch_log>>
    /\ UNCHANGED <<cacheVars, samplerVars, feederVars>>

\* train.py:148-153
SplitValidation ==
    /\ pc = "split"
    /\ IF options.validate
       THEN /\ spects_val' = SliceFrom(spects, 0 - Len(filelist_val))
            /\ spects' = SliceTo(spects, 0 - Len(filelist_val))
            /\ labels_val' = SliceFrom(labels, 0 - Len(filelist_val))
            /\ labels' = SliceTo(labels, 0 - Len(filelist_val))
       ELSE UNCHANGED <<spects, labels, spects_val, labels_val>>
    /\ pc' = "feed"
    /\ UNCHANGED <<options, cfg, train_list, valid_list, filelist,
                   filelist_val, disk, extract_calls, prefiltered, feed,
                   pulled, batch_log>>
    /\ UNCHANGED <<cacheVars, samplerVars, feederVars>>

\* scipy.ndimage.spline_filter applied to one spectrogram
SplineFilter(spect) == [spect EXCEPT !.filtered = @ + 1]

\* train.py:155-220
PrepareFeed ==
    /\ pc = "feed"
    /\ IF options.augment
          /\ PrefilterUpstream(cfg.spline_order, options.load_spectra)
       THEN /\ spects' = [i \in 1..Len(spects) |-> SplineFilter(spects[i])]
            /\ prefiltered' = TRUE
       ELSE /\ spects' = spects
            /\ prefiltered' = FALSE
    /\ IF SamplerConstructible(spects)
       THEN /\ feed' = MakeFeed(options.augment, cfg.bg_threads,
                                cfg.bg_processes)
            /\ pc' = "train"
       ELSE /\ feed' = feed
            /\ pc' = "config_error"
    /\ UNCHANGED <<options, cfg, train_list, valid_list, filelist,
                   filelist_val, labels, spects_val, labels_val, disk,
                   extract_calls, pulled, batch_log>>
    /\ UNCHANGED <<cacheVars, samplerVars, feederVars>>

\* augment.apply_random_stretch_shift(..., order, prefiltered): the number of
\* spline filterings the transform adds to an excerpt
TransformFilters(order, pref) == IF order > 1 /\ ~pref THEN 1 ELSE 0

\* one batch as the training loop sees it: where it was produced and how often
\* its excerpts have been spline-filtered
NextBatch(i) ==
    [origin |-> IF feed.workers = 0 THEN "caller" ELSE "worker",
     filters |-> spects[i].filtered
                 + (IF options.augment
                    THEN TransformFilters(cfg.spline_order, prefiltered)
                    ELSE 0)]

\* train.py:289-292  err += train_fn(*next(batches)), loss finite
TrainBatch ==
    /\ pc = "train"
    /\ pulled < cfg.epochs * cfg.epochsize
    /\ \E i \in 1..Len(spects) : batch_log' = batch_log \cup {NextBatch(i)}
    /\ pulled' = pulled + 1
    /\ UNCHANGED <<pc, options, cfg, train_list, valid_list, filelist,
                   filelist_val, spects, labels, spects_val, labels_val, disk,
                   extract_calls, prefiltered, feed>>
    /\ UNCHANGED <<cacheVars, samplerVars, feederVars>>

\* train.py:292-295  the loss of the batch is not finite: sys.exit(1)
TrainAbort ==
    /\ pc = "train"
    /\ pulled < cfg.epochs * cfg.epochsize
    /\ \E i \in 1..Len(spects) : batch_log' = batch_log \cup {NextBatch(i)}
    /\ pulled' = pulled + 1
    /\ pc' = "aborted"
    /\ UNCHANGED <<options, cfg, train_list, valid_list, filelist,
                   filelist_val, spects, labels, spects_val, labels_val, disk,
                   extract_calls, prefiltered, feed>>
    /\ UNCHANGED <<cacheVars, samplerVars, feederVars>>

\* train.py:328-336
SaveModel ==
    /\ pc = "train"
    /\ pulled = cfg.epochs * cfg.epochsize
    /\ pc' = "done"
    /\ UNCHANGED <<options, cfg, train_list, valid_list, filelist,
                   filelist_val, spects, labels, spects_val, labels_val, disk,
                   extract_calls, prefiltered, feed, pulled, batch_log>>
    /\ UNCHANGED <<cacheVars, samplerVars, feederVars>>

Next ==
    \/ ParseArgs
    \/ LoadFilelists
    \/ ComputeSpect
    \/ LoadLabels
    \/ SplitValidation
    \/ PrepareFeed
    \/ TrainBatch
    \/ TrainAbort
    \/ SaveModel

\* ------------------------------------------------------------------------
\* SpecCache: cached() called again and again for the files of a dataset with
\* --cache-spectra given, while entries of the directory may be deleted
\* ------------------------------------------------------------------------
CacheKeys == {<<"train", 1>>, <<"train", 2>>}
CacheDir == "cache"

\* the entry a previous run has left for fn
Persisted(fn) == NpSave(ExtractSpect(fn))

InitCache ==
    /\ MainIdle /\ SamplerIdle /\ FeederIdle
    /\ \E present \in SUBSET CacheKeys :
          c_disk = [k \in {CacheFn(CacheDir, fn) : fn \in present} |->
                      Persisted(CHOOSE fn \in present :
                                    CacheFn(CacheDir, fn) = k)]
    /\ c_events = <<>>

\* train.py:128-134  one call of cached() for file fn
Fetch(fn, mode) ==
    /\ Len(c_events) < MaxEvents
    /\ LET r == Cached(CacheFn(CacheDir, fn), fn, mode, c_disk)
       IN  /\ c_disk' = r.disk
           /\ c_events' = Append(c_events,
                  [op |-> "fetch", key |-> fn, mode |-> mode,
                   result |-> r.result, invoked |-> r.invoked,
                   stored |-> CacheFn(CacheDir, fn) \in DOMAIN r.disk])
    /\ UNCHANGED <<mainVars, samplerVars, feederVars>>

\* the on-disk entry of fn is deleted between two runs or calls
DeleteEntry(fn) ==
    /\ Len(c_events) < MaxEvents
    /\ CacheFn(CacheDir, fn) \in DOMAIN c_disk
    /\ c_disk' = [k \in DOMAIN c_disk \ {CacheFn(CacheDir, fn)} |-> c_disk[k]]
    /\ c_events' = Append(c_events, [op |-> "delete", key |-> fn])
    /\ UNCHANGED <<mainVars, samplerVars, feederVars>>

NextCache ==
    \/ \E fn \in CacheKeys, mode \in LoadingModes : Fetch(fn, mode)
    \/ \E fn \in CacheKeys : DeleteEntry(fn)

\* ------------------------------------------------------------------------
\* SpecSampler: create_datafeed() and the excerpts grab_random_excerpts draws
\* ------------------------------------------------------------------------
Items == {"x", "y"}

\* max_stretch in [0, 1) as the fraction num / den
Stretches == {st \in [num : 0..MaxStretchDen, den : 1..MaxStretchDen] :
                 st.num < st.den}

\* int(a / b) for a >= 0, b > 0
IntDiv(a, b) == a \div b

\* ceil(a / b) for a >= 0, b > 0
CeilDiv(a, b) == (a + b - 1) \div b

\* train.py:185  frames=int(blocklen / (1 - max_stretch))
ExcerptFrames(blocklen, st) == IntDiv(blocklen * st.den, st.den - st.num)

\* train.py:160-161, 183-185  the excerpt length handed to the sampler
RequestedFrames(augment, blocklen, st) ==
    IF augment THEN ExcerptFrames(blocklen, st) ELSE blocklen

\* the sampler only draws from the items that hold a whole excerpt
Eligible(corpus, frames) == {it \in DOMAIN corpus : corpus[it] >= frames}

\* start frames that run one frame past the end of the item
StartsPastEnd(len, frames) == 0..(len - frames + 1)

\* the start frames of an excerpt of the given length within one item
Starts(len, frames) == 0..(len - frames)

InitSampler ==
    /\ MainIdle /\ CacheIdle /\ FeederIdle
    /\ s_in \in [augment : BOOLEAN, blocklen : 1..MaxBlocklen,
                 max_stretch : Stretches, batchsize : 1..MaxBatchsize,
                 corpus : [Items -> 1..MaxItemLen]]
    /\ s_pc = "new"
    /\ s_frames = 0
    /\ s_excerpt = NoExcerpt
    /\ s_count = 0

\* train.py:157-161, 179-200  the sampler is created
CreateDatafeed ==
    /\ s_pc = "new"
    /\ LET frames == RequestedFrames(s_in.augment, s_in.blocklen,
                                     s_in.max_stretch)
       IN  /\ s_frames' = frames
           /\ s_pc' = IF Eligible(s_in.corpus, frames) = {}
                      THEN "config_error" ELSE "ready"
    /\ UNCHANGED <<s_in, s_excerpt, s_count>>
    /\ UNCHANGED <<mainVars, cacheVars, feederVars>>

\* one excerpt is drawn into the current batch
Sample ==
    /\ s_pc = "ready"
    /\ \E it \in Eligible(s_in.corpus, s_frames) :
         \E start \in Starts(s_in.corpus[it], s_frames) :
            s_excerpt' = [item |-> it, start |-> start, frames |-> s_frames]
    /\ s_count' = (s_count % s_in.batchsize) + 1
    /\ UNCHANGED <<s_in, s_pc, s_frames>>
    /\ UNCHANGED <<mainVars, cacheVars, feederVars>>

NextSampler ==
    \/ CreateDatafeed
    \/ Sample




\* ------------------------------------------------------------------------
\* SpecFeeder: the training loop of main() pulling from the threaded feeder
\* ------------------------------------------------------------------------
\* each worker's queue holds up to num_cached batches
QueueDepth(fd) == fd.num_cached

\* Queue.put() goes through when the queue is not full, and blocks otherwise
CanPut(n, depth) == n < depth

\* what a pull from the queue of a worker does: it reports the failure of a
\* worker that has died, hands out a batch when one is queued, and blocks
\* otherwise
PullOutcome(n, state) ==
    IF state = "failed" THEN "error"
    ELSE IF n > 0 THEN "batch"
    ELSE "blocked"

\* the consumer stops pulling and nobody tells the workers
NoSignalOnStop == FALSE

\* when the consumer stops pulling the workers are signalled to terminate
SignalOnStop == TRUE

\* ... and their queues are released
Released(q) == [w \in DOMAIN q |-> 0]

\* train.py:292 with the exception of next(batches) caught and the pull retried
SwallowedPullError == "train"

\* train.py:292  an exception of next(batches) is not caught: main() ends
UncaughtPullError == "worker_error"

\* train.py:286-291  the number of batches the training loop pulls
TotalBatches == cfg.epochs * cfg.epochsize

InitFeeder ==
    /\ CacheIdle /\ SamplerIdle
    /\ pc = "train"
    /\ options \in [augment : BOOLEAN, validate : {FALSE},
                    cache_spectra : {None}, load_spectra : {"memory"}]
    /\ cfg \in [spline_order : {0},
                bg_threads : 1..MaxWorkers, bg_processes : {0},
                epochs : {MaxEpochs}, epochsize : {MaxEpochSize}]
    /\ train_list = TrainFiles(1) /\ valid_list = <<>>
    /\ filelist = train_list /\ filelist_val = <<>>
    /\ spects = [i \in 1..1 |-> ExtractSpect(train_list[i])]
    /\ labels = [i \in 1..1 |-> AlignedTargets(train_list[i], spects[i])]
    /\ spects_val = <<>> /\ labels_val = <<>>
    /\ disk = <<>> /\ extract_calls = 1
    /\ prefiltered = FALSE
    /\ feed = MakeFeed(options.augment, cfg.bg_threads, cfg.bg_processes)
    /\ pulled = 0 /\ batch_log = {}
    /\ f_q = [w \in 1..feed.workers |-> 0]
    /\ f_worker = [w \in 1..feed.workers |-> "running"]
    /\ f_rr = 1
    /\ f_stop = FALSE

FeederFrame ==
    UNCHANGED <<options, cfg, train_list, valid_list, filelist, filelist_val,
                spects, labels, spects_val, labels_val, disk, extract_calls,
                prefiltered, feed, cacheVars, samplerVars>>

\* a worker has produced a batch and puts it into its queue
WorkerPut(w) ==
    /\ w \in DOMAIN f_worker
    /\ f_worker[w] = "running" /\ ~f_stop
    /\ CanPut(f_q[w], QueueDepth(feed))
    /\ f_q' = [f_q EXCEPT ![w] = @ + 1]
    /\ UNCHANGED <<pc, pulled, batch_log, f_worker, f_rr, f_stop>>
    /\ FeederFrame

\* a worker fails with an exception while producing a batch
WorkerFail(w) ==
    /\ w \in DOMAIN f_worker
    /\ f_worker[w] = "running" /\ ~f_stop
    /\ f_worker' = [f_worker EXCEPT ![w] = "failed"]
    /\ UNCHANGED <<pc, pulled, batch_log, f_q, f_rr, f_stop>>
    /\ FeederFrame

\* a worker that has been signalled terminates, also out of a blocked put
WorkerExit(w) ==
    /\ w \in DOMAIN f_worker
    /\ f_worker[w] = "running" /\ f_stop
    /\ f_worker' = [f_worker EXCEPT ![w] = "stopped"]
    /\ UNCHANGED <<pc, pulled, batch_log, f_q, f_rr, f_stop>>
    /\ FeederFrame

\* the consumer stops pulling
Shutdown ==
    /\ f_stop' = SignalOnStop
    /\ f_q' = Released(f_q)

\* train.py:289-293  next(batches) with a finite loss, or raising
ConsumerPull ==
    /\ pc = "train"
    /\ pulled < TotalBatches
    /\ LET outcome == PullOutcome(f_q[f_rr], f_worker[f_rr])
       IN  \/ /\ outcome = "batch"
              /\ f_q' = [f_q EXCEPT ![f_rr] = @ - 1]
              /\ f_rr' = (f_rr % feed.workers) + 1
              /\ pulled' = pulled + 1
              /\ batch_log' = batch_log \cup {NextBatch(1)}
              /\ UNCHANGED <<pc, f_stop>>
           \/ /\ outcome = "error"
              /\ pc' = UncaughtPullError
              /\ IF pc' = "train"
                 THEN UNCHANGED <<f_q, f_stop>>
                 ELSE Shutdown
              /\ UNCHANGED <<pulled, batch_log, f_rr>>
    /\ UNCHANGED f_worker
    /\ FeederFrame

\* train.py:292-295  the loss of the pulled batch is not finite: sys.exit(1)
ConsumerAbort ==
    /\ pc = "train"
    /\ pulled < TotalBatches
    /\ PullOutcome(f_q[f_rr], f_worker[f_rr]) = "batch"
    /\ pulled' = pulled + 1
    /\ batch_log' = batch_log \cup {NextBatch(1)}
    /\ f_rr' = (f_rr % feed.workers) + 1
    /\ pc' = "aborted"
    /\ Shutdown
    /\ UNCHANGED f_worker
    /\ FeederFrame

\* train.py:328-336  all epochs are done, main() returns
ConsumerFinish ==
    /\ pc = "train"
    /\ pulled = TotalBatches
    /\ pc' = "done"
    /\ Shutdown
    /\ UNCHANGED <<pulled, batch_log, f_worker, f_rr>>
    /\ FeederFrame

NextFeeder ==
    \/ \E w \in 1..MaxWorkers : WorkerPut(w)
    \/ \E w \in 1..MaxWorkers : WorkerFail(w)
    \/ \E w \in 1..MaxWorkers : WorkerExit(w)
    \/ ConsumerPull
    \/ ConsumerAbort
    \/ ConsumerFinish


Spec == Init /\ [][Next]_vars

SpecCache == InitCache /\ [][NextCache]_vars

SpecSampler == InitSampler /\ [][NextSampler]_vars

SpecFeeder == InitFeeder /\ [][NextFeeder]_vars

\* every thread that can run is eventually run
FairFeeder ==
    /\ SpecFeeder
    /\ \A w \in 1..MaxWorkers : WF_vars(WorkerExit(w))
    /\ WF_vars(ConsumerPull)

\* ------------------------------------------------------------------------
\* Properties of main()
\* ------------------------------------------------------------------------
FeedReady == pc \in {"train", "aborted", "done"}
AfterSplit == pc \in {"feed", "train", "aborted", "done", "config_error"}
FilesOf(items) == [i \in 1..Len(items) |-> items[i].file]

\* C4 (as stated): with bg_threads = 0 and bg_processes = 0 no background
\* worker and no queue is created and every batch is produced inside the
\* consumer's own pull, whatever the other options are.
C4_SyncWithZeroWorkers ==
    (FeedReady /\ cfg.bg_threads = 0 /\ cfg.bg_processes = 0)
        => /\ feed.workers = 0
           /\ feed.queues = 0
           /\ \A b \in batch_log : b.origin = "caller"

\* C4 (amended): with augmentation enabled, bg_threads = 0 and
\* bg_processes = 0 no background worker and no queue is created and every
\* batch is produced inside the consumer's own pull; with augmentation
\* disabled one background thread with one queue of 15 batches is created
\* whatever bg_threads and bg_processes are.
C4_SyncWithZeroWorkersAugmented ==
    /\ (FeedReady /\ options.augment
            /\ cfg.bg_threads = 0 /\ cfg.bg_processes = 0)
           => /\ feed.workers = 0
              /\ feed.queues = 0
              /\ \A b \in batch_log : b.origin = "caller"
    /\ (FeedReady /\ ~options.augment)
           => /\ feed.mode = "threads"
              /\ feed.workers = 1
              /\ feed.queues = 1
              /\ feed.num_cached = 15
              /\ \A b \in batch_log : b.origin = "worker"

C4_Witness ==
    /\ pc = "done"
    /\ options.augment /\ cfg.bg_threads = 0 /\ cfg.bg_processes = 0
    /\ pulled > 0 /\ batch_log # {}

\* C5: a loading mode other than 'memory' without --cache-spectra ends the
\* run at the option check: nothing is extracted or fetched, no cache entry is
\* written, no feed (hence no worker) is created and no batch is produced.
C5_FailFastWithoutCacheDir ==
    (options.load_spectra # "memory" /\ options.cache_spectra \in {None, ""})
        => /\ pc \in {"parse", "usage_error"}
           /\ extract_calls = 0
           /\ spects = <<>>
           /\ DOMAIN disk = {}
           /\ feed = NoFeed
           /\ pulled = 0 /\ batch_log = {}

C5_Witness ==
    /\ pc = "usage_error"
    /\ options.load_spectra = "on-demand"
    /\ options.cache_spectra = None

\* C9: with augmentation, the prefiltered flag is true exactly when
\* spline_order > 1 and the spectra are loaded to memory, that is exactly when
\* the training spectrograms were filtered upstream; and for spline_order > 1
\* every excerpt of every batch has been spline-filtered exactly once.
C9_FilteredExactlyOnce ==
    (FeedReady /\ options.augment)
        => /\ prefiltered <=> (cfg.spline_order > 1
                               /\ options.load_spectra = "memory")
           /\ \A i \in 1..Len(spects) :
                  spects[i].filtered = (IF prefiltered THEN 1 ELSE 0)
           /\ cfg.spline_order > 1
                  => \A b \in batch_log : b.filters = 1

C9_Witness ==
    /\ pc = "done" /\ options.augment
    /\ cfg.spline_order > 1
    /\ options.load_spectra = "memmap"
    /\ ~prefiltered
    /\ batch_log # {}

\* C10: with validation enabled the split partitions the loaded items by file
\* list, for every pair of list lengths: the training set is the items of the
\* 'train' list in order, the validation set the items of the 'valid' list in
\* order, and spectrograms and labels stay paired index by index.
C10_SplitByFileList ==
    (AfterSplit /\ options.validate)
        => /\ FilesOf(spects) = train_list
           /\ FilesOf(spects_val) = valid_list
           /\ FilesOf(labels) = FilesOf(spects)
           /\ FilesOf(labels_val) = FilesOf(spects_val)

\* ------------------------------------------------------------------------
\* Properties of the cache
\* ------------------------------------------------------------------------
Fetches == {i \in 1..Len(c_events) : c_events[i].op = "fetch"}

\* the entry of the key of event i was deleted between events i and j
DeletedBetween(i, j) ==
    \E k \in (i+1)..(j-1) :
        c_events[k].op = "delete" /\ c_events[k].key = c_events[i].key

\* a persisted entry for the key of fetch j existed when it was called: a
\* previous run left one or an earlier fetch wrote one, and it has not been
\* deleted since
PersistedBefore(j) ==
    LET key == c_events[j].key
        before == {i \in 1..(j-1) : c_events[i].key = key}
    IN  IF before = {}
        THEN FALSE
        ELSE LET last == CHOOSE i \in before : \A k \in before : k <= i
             IN  c_events[last].op = "fetch"

\* C7: with a backing location, two calls for the same key with no deletion in
\* between return identical arrays and the second does not invoke the compute
\* function, whatever the two loading modes; a call whose entry was written by
\* an earlier call and not deleted since does not compute, a call after a
\* deletion computes again, and every call leaves the entry on disk.
C7_CacheRoundTrip ==
    /\ \A i \in Fetches, j \in Fetches :
          (i < j /\ c_events[i].key = c_events[j].key /\ ~DeletedBetween(i, j))
              => /\ c_events[j].result = c_events[i].result
                 /\ ~c_events[j].invoked
    /\ \A j \in Fetches :
          /\ c_events[j].stored
          /\ (\E i \in 1..(j-1) : c_events[i].key = c_events[j].key)
                 => (c_events[j].invoked <=> ~PersistedBefore(j))

\* a fetch, the deletion of its entry, and a second fetch that recomputes and
\* rewrites it
C7_Witness ==
    \E i \in Fetches, j \in Fetches :
        /\ i + 2 = j
        /\ c_events[i].key = c_events[j].key
        /\ c_events[i + 1].op = "delete"
        /\ c_events[i + 1].key = c_events[i].key
        /\ ~c_events[i].invoked
        /\ c_events[j].invoked /\ c_events[j].stored
        /\ c_events[j].mode = "on-demand"
        /\ c_events[j].result = c_events[i].result

\* ------------------------------------------------------------------------
\* Properties of create_datafeed() and the sampler
\* ------------------------------------------------------------------------
\* C6: with augmentation the excerpt length requested from the sampler is
\* ceil(blocklen / (1 - max_stretch)), so that the excerpt shrunk by the
\* factor 1 - max_stretch still spans at least blocklen frames.
C6_ExcerptFramesIsCeil ==
    (s_pc # "new" /\ s_in.augment)
        => /\ s_frames = CeilDiv(s_in.blocklen * s_in.max_stretch.den,
                                 s_in.max_stretch.den - s_in.max_stretch.num)
           /\ s_frames * (s_in.max_stretch.den - s_in.max_stretch.num)
                  >= s_in.blocklen * s_in.max_stretch.den

\* C8: every excerpt drawn has exactly the requested number of frames and lies
\* within one item that is at least that long.
C8_ExcerptWithinItem ==
    (s_excerpt # NoExcerpt)
        => /\ s_excerpt.frames = s_frames
           /\ s_excerpt.item \in Items
           /\ 0 <= s_excerpt.start
           /\ s_excerpt.start + s_frames <= s_in.corpus[s_excerpt.item]
           /\ s_in.corpus[s_excerpt.item] >= s_frames

\* an excerpt that ends on the last frame of its item, drawn from a corpus
\* whose other item is too short
C8_Witness ==
    /\ s_excerpt # NoExcerpt
    /\ s_excerpt.start > 0
    /\ s_excerpt.start + s_frames = s_in.corpus[s_excerpt.item]
    /\ \E it \in Items : s_in.corpus[it] < s_frames

\* ------------------------------------------------------------------------
\* Properties of the threaded feeder
\* ------------------------------------------------------------------------
FeederWorkers == DOMAIN f_worker
ConsumerStopped == pc \in {"aborted", "done", "worker_error"}

\* the queue depth train.py configures for the threaded feed
ConfiguredDepth ==
    IF options.augment THEN 5 * cfg.bg_threads ELSE 15

\* C1: in threaded mode no queue ever holds more than queue_depth batches; a
\* worker whose queue is full adds nothing to it, and the consumer receives a
\* batch only by taking one out of the queue it pulls from, never from an
\* empty queue (the queue is left one batch shorter, or released when this
\* pull is the one the training loop aborts on).
C1_QueuesBounded ==
    /\ [](\A w \in FeederWorkers : f_q[w] >= 0 /\ f_q[w] <= ConfiguredDepth)
    /\ [][\A w \in FeederWorkers :
             f_q[w] = ConfiguredDepth => f_q'[w] <= f_q[w]]_vars
    /\ [][pulled' # pulled =>
             /\ f_q[f_rr] > 0
             /\ f_q'[f_rr] = (IF f_stop' THEN 0 ELSE f_q[f_rr] - 1)]_vars

\* a worker blocked on its full queue while the consumer has pulled a batch
C1_Witness ==
    /\ options.augment /\ cfg.bg_threads = 2
    /\ pc = "train" /\ pulled > 0
    /\ f_q[1] = 10 /\ f_worker[1] = "running"
    /\ f_q[2] = 0 /\ f_rr = 2

C3_FailurePropagates ==
    /\ [][(pc = "train" /\ pulled < TotalBatches
              /\ f_worker[f_rr] = "failed"
              /\ <<pc, pulled, f_rr>>' # <<pc, pulled, f_rr>>)
             => pc' = "worker_error"]_vars
    /\ (pc = "train" /\ pulled < TotalBatches /\ f_worker[f_rr] = "failed")
           ~> (pc = "worker_error")

\* the failure of a worker whose queue still held batches has been reported
C3_Witness ==
    /\ pc = "worker_error"
    /\ pulled > 0
    /\ f_worker[f_rr] = "failed"

=============================================================================
